---- MODULE Spec2Model ----
(***************************************************************************)
(* Single-room sensor node (ESP8266): sensor drivers, poll cycle, validity *)
(* gate, message composer, transport session callbacks and dispatcher of   *)
(* sensor.h and network.h.                                                 *)
(*                                                                         *)
(* Time.  millis() is an unsigned 32-bit millisecond counter.  The model   *)
(* counts time in ticks of MsPerTick = 8 ms, so that the counter wraps at  *)
(* 2^32 / 8 = 2^29 ticks; every delay and threshold of the code (80 ms,    *)
(* 3000 ms, 10000 ms, 60000 ms) is a whole number of ticks.                *)
(*                                                                         *)
(* Floats.  A float is modelled by the integer it denotes in a fixed       *)
(* binary unit (temperature: 2^-19 degree C, humidity: 2^-18 percent),     *)
(* rounded to 24 significant bits as IEEE-754 single precision does.       *)
(***************************************************************************)
EXTENDS Integers, Sequences, FiniteSets, TLC

\* ------------------------------------------------------------ bounds
\* A run holds at most MaxAdvances operations that let time pass.
MaxAdvances == 3

\* ------------------------------------------------------------ constants
GL5539_R_PULLUP == 10000
GL5539_ADC_MAX == 1024
AHT21_MEASURE_DELAY_MS == 80
STALE_THRESHOLD_MS == 60000
SETTLE_DELAY_MS == 3000
RECONNECT_INTERVAL_MS == 10000
TARGET_ROOM == "living_room"

MsPerTick == 2^3
Ticks(ms) == ms \div MsPerTick
\* millis() wraps at 2^32 ms.
MillisWrap == 2^29
\* The clock of a run stops short of the second wrap of millis().
MaxClock == 2 * MillisWrap - 1

\* One degree C and one percent of relative humidity, in model units.
TempUnit == 2^19
HumUnit == 2^18

\* ------------------------------------------------------------ arithmetic
Abs(x) == IF x < 0 THEN -x ELSE x

RECURSIVE HighBit(_)
\* The largest power of two not above n (n >= 1).
HighBit(n) == IF n < 2 THEN 1 ELSE 2 * HighBit(n \div 2)

\* q rounded to the nearest multiple of u, ties to the even multiple (q >= 0).
RoundToMultiple(q, u) ==
  LET lo == (q \div u) * u
      r  == q - lo
  IN  IF 2 * r < u THEN lo
      ELSE IF 2 * r > u THEN lo + u
      ELSE IF (lo \div u) % 2 = 0 THEN lo ELSE lo + u

\* Conversion to float: 24 significant bits, round to nearest even.
ToFloat(q) ==
  LET a == Abs(q)
      p == HighBit(IF a = 0 THEN 1 ELSE a)
      u == IF p > 2^23 THEN p \div 2^23 ELSE 1
      m == RoundToMultiple(a, u)
  IN  IF q < 0 THEN -m ELSE m

\* ------------------------------------------------------------ state
VARIABLES
  phase,                 \* "setup" before the start-up scan, then "loop"
  g_temperature,         \* sensor.h:41, in TempUnit
  g_humidity,            \* sensor.h:42, in HumUnit
  g_co2,                 \* sensor.h:43
  g_voc,                 \* sensor.h:44
  g_light_level,         \* sensor.h:45
  g_motion,              \* sensor.h:46
  g_sensor_data_valid,   \* sensor.h:47
  g_last_sensor_update,  \* sensor.h:50, a value of millis()
  wsConnected,           \* network.h:27
  clock,                 \* ticks since power-up (millis() is clock mod 2^29)
  updatedAt,             \* history: clock of the last assignment of g_last_sensor_update, -1 if none
  sinceConnect,          \* history: ticks since the last WStype_CONNECTED event began, capped; -1 if none
  advances,              \* number of time-consuming operations so far
  sinceFail,             \* the client's reconnect timer: ticks since the connection last failed, capped
  op,                    \* observation of the last operation: its name, inputs, locals and result
  sent                   \* the documents the last operation handed to webSocket.sendTXT

reading == <<g_temperature, g_humidity, g_co2, g_voc, g_light_level, g_motion>>
validity == <<g_sensor_data_valid, g_last_sensor_update>>
time == <<clock, updatedAt, sinceConnect, advances>>
vars == <<phase, reading, validity, wsConnected, time, sinceFail, op, sent>>

millis == clock % MillisWrap

\* delay(ms), and any other passing of d ticks: the guard keeps the run bounded.
CanAdvance(d) == d = 0 \/ (advances < MaxAdvances /\ clock + d <= MaxClock)
Capped(x) == IF x > Ticks(SETTLE_DELAY_MS) THEN Ticks(SETTLE_DELAY_MS) ELSE x
Advance(d) ==
  /\ clock' = clock + d
  /\ advances' = IF d = 0 THEN advances ELSE advances + 1
Waited(x) == IF x > Ticks(RECONNECT_INTERVAL_MS) THEN Ticks(RECONNECT_INTERVAL_MS) ELSE x
Elapse(d) ==
  /\ Advance(d)
  /\ sinceConnect' = IF sinceConnect = -1 THEN -1 ELSE Capped(sinceConnect + d)
  /\ sinceFail' = Waited(sinceFail + d)

\* Mutant: g_sensor_data_valid is initialised to true.
Init_flagSet ==
  /\ phase = "setup"
  /\ g_temperature = (47 * TempUnit) \div 2
  /\ g_humidity = 55 * HumUnit
  /\ g_co2 = 420
  /\ g_voc = 15
  /\ g_light_level = 300
  /\ g_motion = FALSE
  /\ g_sensor_data_valid = TRUE
  /\ g_last_sensor_update = 0
  /\ wsConnected = FALSE
  /\ clock = 0
  /\ updatedAt = -1
  /\ sinceConnect = -1
  /\ advances = 0
  /\ sinceFail = Ticks(RECONNECT_INTERVAL_MS)
  /\ op = [name |-> "boot"]
  /\ sent = << >>

Init ==
  /\ phase = "setup"
  /\ g_temperature = (47 * TempUnit) \div 2
  /\ g_humidity = 55 * HumUnit
  /\ g_co2 = 420
  /\ g_voc = 15
  /\ g_light_level = 300
  /\ g_motion = FALSE
  /\ g_sensor_data_valid = FALSE
  /\ g_last_sensor_update = 0
  /\ wsConnected = FALSE
  /\ clock = 0
  /\ updatedAt = -1
  /\ sinceConnect = -1
  /\ advances = 0
  /\ sinceFail = Ticks(RECONNECT_INTERVAL_MS)
  /\ op = [name |-> "boot"]
  /\ sent = << >>

\* ------------------------------------------------------------ validity gate
isSensorDataValid ==
  g_sensor_data_valid
    /\ (millis - g_last_sensor_update) % MillisWrap < Ticks(STALE_THRESHOLD_MS)

\* ------------------------------------------------------------ start-up
\* scanI2CDevices: deviceCount devices acknowledged their address.
scanI2CDevices(deviceCount) ==
  /\ phase = "setup"
  /\ phase' = "loop"
  /\ g_sensor_data_valid' = IF deviceCount = 0 THEN FALSE ELSE g_sensor_data_valid
  /\ op' = [name |-> "scanI2CDevices", deviceCount |-> deviceCount]
  /\ sent' = << >>
  /\ UNCHANGED <<reading, g_last_sensor_update, wsConnected, time>>

\* ------------------------------------------------------------ AHT21
\* Wire transaction results: err is endTransmission's code (0: acknowledged),
\* avail is Wire.available() after requestFrom (all the bytes asked for, or 0).
AHT21Frame(status, h1, h2, x, t1, t2) ==
  [err |-> 0, avail |-> 6, data |-> <<status, h1, h2, x, t1, t2>>]

AHT21HumidityRaw(data) == data[2] * 4096 + data[3] * 16 + (data[4] \div 16)
AHT21TemperatureRaw(data) == (data[4] % 16) * 65536 + data[5] * 256 + data[6]
\* (raw * 100.0) / 1048576.0, stored in a float.
AHT21Humidity(raw) == ToFloat(raw * 25)
\* (raw * 200.0) / 1048576.0 - 50.0, stored in a float.
AHT21Temperature(raw) == ToFloat(raw * 100 - 50 * TempUnit)

\* Mutant: the upper temperature limit is not checked.
AHT21Plausible_noUpperLimit(temperature, humidity) ==
  /\ temperature > -40 * TempUnit
  /\ humidity >= 0
  /\ humidity <= 100 * HumUnit

AHT21Plausible(temperature, humidity) ==
  /\ temperature > -40 * TempUnit
  /\ temperature < 85 * TempUnit
  /\ humidity >= 0
  /\ humidity <= 100 * HumUnit

\* The result of readAHT21 on the bus answers `in`: ret, the two globals after
\* the call, whether delay(80) ran, and the locals.
readAHT21(in) ==
  LET keep == [ret |-> FALSE, g_temperature |-> g_temperature, g_humidity |-> g_humidity,
               delayed |-> in.err = 0, busFailed |-> FALSE, busy |-> FALSE,
               decoded |-> FALSE, temperature |-> 0, humidity |-> 0]
      humidity == AHT21Humidity(AHT21HumidityRaw(in.data))
      temperature == AHT21Temperature(AHT21TemperatureRaw(in.data))
  IN  IF in.err # 0 THEN [keep EXCEPT !.busFailed = TRUE]
      ELSE IF ~(in.avail >= 6) THEN [keep EXCEPT !.busFailed = TRUE]
      ELSE IF (in.data[1] \div 128) % 2 = 1 THEN [keep EXCEPT !.busy = TRUE]
      ELSE IF AHT21Plausible(temperature, humidity)
        THEN [keep EXCEPT !.ret = TRUE, !.g_temperature = temperature, !.g_humidity = humidity,
                          !.decoded = TRUE, !.temperature = temperature, !.humidity = humidity]
        ELSE [keep EXCEPT !.decoded = TRUE, !.temperature = temperature, !.humidity = humidity]

\* ------------------------------------------------------------ ENS160
\* One register read: select the register (err), request n bytes (avail), and
\* the bytes in bus order.
RegisterRead(err, avail, bytes) == [err |-> err, avail |-> avail, bytes |-> bytes]

\* Wire.read() | (Wire.read() << 8): the two reads are unsequenced operands of
\* `|`; leftFirst says whether the build evaluates the left one first.
ReadWord(bytes, leftFirst) ==
  IF leftFirst THEN bytes[1] + 256 * bytes[2] ELSE bytes[2] + 256 * bytes[1]

\* Mutant: the CO2 limits are inclusive.
ENS160Plausible_inclusive(co2, tvoc) == co2 >= 300 /\ co2 <= 5000 /\ tvoc < 10000

ENS160Plausible(co2, tvoc) == co2 > 300 /\ co2 < 5000 /\ tvoc < 10000

\* The result of readENS160 on the bus answers `in`.
readENS160(in) ==
  LET keep == [ret |-> FALSE, g_co2 |-> g_co2, g_voc |-> g_voc, busFailed |-> FALSE,
               ready |-> FALSE, decoded |-> FALSE, co2 |-> 0, tvoc |-> 0]
      tvoc == IF in.tvoc.avail >= 2 THEN ReadWord(in.tvoc.bytes, in.leftFirst) ELSE 0
      co2  == IF in.eco2.avail >= 2 THEN ReadWord(in.eco2.bytes, in.leftFirst) ELSE 400
      subFailed == \E r \in {in.aqi, in.tvoc, in.eco2} : r.err # 0 \/ r.avail < Len(r.bytes)
  IN  IF in.status.err # 0 THEN [keep EXCEPT !.busFailed = TRUE]
      ELSE IF ~(in.status.avail > 0) THEN [keep EXCEPT !.busFailed = TRUE]
      ELSE IF (in.status.bytes[1] \div 2) % 2 = 1
        THEN IF ENS160Plausible(co2, tvoc)
          THEN [keep EXCEPT !.ret = TRUE, !.g_co2 = co2, !.g_voc = tvoc, !.busFailed = subFailed,
                            !.ready = TRUE, !.decoded = TRUE, !.co2 = co2, !.tvoc = tvoc]
          ELSE [keep EXCEPT !.busFailed = subFailed, !.ready = TRUE, !.decoded = TRUE,
                            !.co2 = co2, !.tvoc = tvoc]
        ELSE keep

\* ------------------------------------------------------------ GL5539
\* (int)(12500000.0 / pow(ldrResistance, 1.4)) for ADC samples 0 .. 1022, the
\* float arithmetic of readGL5539 evaluated sample by sample; 0 where the
\* resistance is outside the band [100, 50000] and the curve is not used.
PowerLawLux ==
  <<
     0, 0, 0, 0, 0, 0, 0, 0, 0, 0, 0, 17652, 15606, 13932, 12542, 11371,
     10374, 9517, 8773, 8122, 7549, 7040, 6587, 6181, 5815, 5485, 5184, 4911, 4660, 4431, 4219, 4024,
     3844, 3676, 3521, 3376, 3241, 3115, 2996, 2885, 2781, 2682, 2590, 2502, 2419, 2341, 2267, 2196,
     2130, 2066, 2006, 1948, 1893, 1840, 1790, 1742, 1696, 1653, 1610, 1570, 1531, 1494, 1458, 1424,
     1391, 1359, 1328, 1299, 1270, 1243, 1216, 1190, 1166, 1142, 1118, 1096, 1074, 1053, 1033, 1013,
     994, 975, 957, 940, 923, 906, 890, 875, 859, 845, 830, 816, 803, 789, 776, 764,
     752, 740, 728, 717, 706, 695, 684, 674, 664, 654, 644, 635, 626, 617, 608, 599,
     591, 583, 575, 567, 559, 552, 544, 537, 530, 523, 516, 510, 503, 497, 490, 484,
     478, 472, 466, 461, 455, 450, 444, 439, 434, 429, 424, 419, 414, 409, 404, 400,
     395, 391, 386, 382, 378, 374, 370, 366, 362, 358, 354, 350, 347, 343, 339, 336,
     332, 329, 326, 322, 319, 316, 313, 309, 306, 303, 300, 297, 294, 292, 289, 286,
     283, 281, 278, 275, 273, 270, 268, 265, 263, 260, 258, 255, 253, 251, 249, 246,
     244, 242, 240, 238, 236, 233, 231, 229, 227, 225, 223, 222, 220, 218, 216, 214,
     212, 211, 209, 207, 205, 204, 202, 200, 199, 197, 195, 194, 192, 191, 189, 188,
     186, 185, 183, 182, 180, 179, 177, 176, 175, 173, 172, 171, 169, 168, 167, 165,
     164, 163, 162, 160, 159, 158, 157, 156, 155, 153, 152, 151, 150, 149, 148, 147,
     146, 145, 144, 143, 141, 140, 139, 138, 137, 136, 136, 135, 134, 133, 132, 131,
     130, 129, 128, 127, 126, 125, 125, 124, 123, 122, 121, 120, 120, 119, 118, 117,
     116, 115, 115, 114, 113, 112, 112, 111, 110, 109, 109, 108, 107, 107, 106, 105,
     104, 104, 103, 102, 102, 101, 100, 100, 99, 99, 98, 97, 97, 96, 95, 95,
     94, 94, 93, 92, 92, 91, 91, 90, 90, 89, 88, 88, 87, 87, 86, 86,
     85, 85, 84, 84, 83, 83, 82, 82, 81, 81, 80, 80, 79, 79, 78, 78,
     77, 77, 76, 76, 75, 75, 74, 74, 73, 73, 73, 72, 72, 71, 71, 70,
     70, 70, 69, 69, 68, 68, 68, 67, 67, 66, 66, 66, 65, 65, 64, 64,
     64, 63, 63, 63, 62, 62, 61, 61, 61, 60, 60, 60, 59, 59, 59, 58,
     58, 58, 57, 57, 57, 56, 56, 56, 55, 55, 55, 54, 54, 54, 54, 53,
     53, 53, 52, 52, 52, 51, 51, 51, 51, 50, 50, 50, 49, 49, 49, 49,
     48, 48, 48, 47, 47, 47, 47, 46, 46, 46, 46, 45, 45, 45, 45, 44,
     44, 44, 44, 43, 43, 43, 43, 42, 42, 42, 42, 41, 41, 41, 41, 41,
     40, 40, 40, 40, 39, 39, 39, 39, 39, 38, 38, 38, 38, 38, 37, 37,
     37, 37, 37, 36, 36, 36, 36, 36, 35, 35, 35, 35, 35, 34, 34, 34,
     34, 34, 33, 33, 33, 33, 33, 32, 32, 32, 32, 32, 32, 31, 31, 31,
     31, 31, 31, 30, 30, 30, 30, 30, 30, 29, 29, 29, 29, 29, 29, 28,
     28, 28, 28, 28, 28, 27, 27, 27, 27, 27, 27, 27, 26, 26, 26, 26,
     26, 26, 26, 25, 25, 25, 25, 25, 25, 25, 24, 24, 24, 24, 24, 24,
     24, 23, 23, 23, 23, 23, 23, 23, 23, 22, 22, 22, 22, 22, 22, 22,
     22, 21, 21, 21, 21, 21, 21, 21, 21, 21, 20, 20, 20, 20, 20, 20,
     20, 20, 19, 19, 19, 19, 19, 19, 19, 19, 19, 18, 18, 18, 18, 18,
     18, 18, 18, 18, 18, 17, 17, 17, 17, 17, 17, 17, 17, 17, 17, 16,
     16, 16, 16, 16, 16, 16, 16, 16, 16, 15, 15, 15, 15, 15, 15, 15,
     15, 15, 15, 15, 15, 14, 14, 14, 14, 14, 14, 14, 14, 14, 14, 14,
     13, 13, 13, 13, 13, 13, 13, 13, 13, 13, 13, 13, 13, 12, 12, 12,
     12, 12, 12, 12, 12, 12, 12, 12, 12, 12, 11, 11, 11, 11, 11, 11,
     11, 11, 11, 11, 11, 11, 11, 11, 10, 10, 10, 10, 10, 10, 10, 10,
     10, 10, 10, 10, 10, 10, 10, 9, 9, 9, 9, 9, 9, 9, 9, 9,
     9, 9, 9, 9, 9, 9, 9, 8, 8, 8, 8, 8, 8, 8, 8, 8,
     8, 8, 8, 8, 8, 8, 8, 8, 7, 7, 7, 7, 7, 7, 7, 7,
     7, 7, 7, 7, 7, 7, 7, 7, 7, 7, 7, 6, 6, 6, 6, 6,
     6, 6, 6, 6, 6, 6, 6, 6, 6, 6, 6, 6, 6, 6, 6, 6,
     5, 5, 5, 5, 5, 5, 5, 5, 5, 5, 5, 5, 5, 5, 5, 5,
     5, 5, 5, 5, 5, 5, 5, 4, 4, 4, 4, 4, 4, 4, 4, 4,
     4, 4, 4, 4, 4, 4, 4, 4, 4, 4, 4, 4, 4, 4, 4, 4,
     4, 3, 3, 3, 3, 3, 3, 3, 3, 3, 3, 3, 3, 3, 3, 3,
     3, 3, 3, 3, 3, 3, 0, 0, 0, 0, 0, 0, 0, 0, 0, 0,
     0, 0, 0, 0, 0, 0, 0, 0, 0, 0, 0, 0, 0, 0, 0, 0,
     0, 0, 0, 0, 0, 0, 0, 0, 0, 0, 0, 0, 0, 0, 0, 0,
     0, 0, 0, 0, 0, 0, 0, 0, 0, 0, 0, 0, 0, 0, 0, 0,
     0, 0, 0, 0, 0, 0, 0, 0, 0, 0, 0, 0, 0, 0, 0, 0,
     0, 0, 0, 0, 0, 0, 0, 0, 0, 0, 0, 0, 0, 0, 0, 0,
     0, 0, 0, 0, 0, 0, 0, 0, 0, 0, 0, 0, 0, 0, 0, 0,
     0, 0, 0, 0, 0, 0, 0, 0, 0, 0, 0, 0, 0, 0, 0, 0,
     0, 0, 0, 0, 0, 0, 0, 0, 0, 0, 0, 0, 0, 0, 0, 0,
     0, 0, 0, 0, 0, 0, 0, 0, 0, 0, 0, 0, 0, 0, 0, 0,
     0, 0, 0, 0, 0, 0, 0, 0, 0, 0, 0, 0, 0, 0, 0 >>

\* ldrResistance = R_PULLUP * adc / (ADC_MAX - adc) against a threshold:
\* rounding to float is monotone and both thresholds are floats.
LdrAbove(adcValue, ohms) == GL5539_R_PULLUP * adcValue > ohms * (GL5539_ADC_MAX - adcValue)
LdrBelow(adcValue, ohms) == GL5539_R_PULLUP * adcValue < ohms * (GL5539_ADC_MAX - adcValue)

\* (int)lux of the three-band rule.
GL5539Lux(adcValue) ==
  IF LdrAbove(adcValue, 50000) THEN 1
  ELSE IF LdrBelow(adcValue, 100) THEN 2000
  ELSE PowerLawLux[adcValue + 1]

\* Mutant: the plausibility check without the noise floor.
GL5539Plausible_noFloor(lux, adcValue) == lux >= 0 /\ lux <= 10000

\* lux >= 0 && lux <= 10000 && adcValue >= 10; no sample's lux lies strictly
\* between 10000 and 10001, so the truncated value decides the comparison.
GL5539Plausible(lux, adcValue) == lux >= 0 /\ lux <= 10000 /\ adcValue >= 10

readGL5539(adcValue) ==
  LET keep == [ret |-> FALSE, g_light_level |-> g_light_level, divided |-> FALSE,
               denominator |-> 0, lux |-> 0]
  IN  IF adcValue >= GL5539_ADC_MAX - 1 THEN keep
      ELSE LET lux == GL5539Lux(adcValue)
               seen == [keep EXCEPT !.divided = TRUE,
                                    !.denominator = GL5539_ADC_MAX - adcValue, !.lux = lux]
           IN  IF GL5539Plausible(lux, adcValue)
                 THEN [seen EXCEPT !.ret = TRUE, !.g_light_level = lux]
                 ELSE seen

\* ------------------------------------------------------------ poll cycle
\* g_motion = (random(0, 100) < 5)
MotionFrom(draw) == draw < 5

\* Mutant: a cycle without any success marks the data invalid.
ValidityAfter_clears(anyDataRead, now) ==
  IF anyDataRead THEN <<TRUE, now>> ELSE <<FALSE, g_last_sensor_update>>

\* The validity state a cycle leaves, finishing at millis() = now.
ValidityAfter(anyDataRead, now) ==
  IF anyDataRead THEN <<TRUE, now>> ELSE <<g_sensor_data_valid, g_last_sensor_update>>

\* Mutant: the drivers are chained with ||, so that a driver runs only if
\* every driver before it failed.
readAllSensors_shortCircuit(aht, ens, adcValue, draw) ==
  LET a == readAHT21(aht)
      e == IF a.ret
             THEN [readENS160(ens) EXCEPT !.ret = FALSE, !.g_co2 = g_co2, !.g_voc = g_voc]
             ELSE readENS160(ens)
      l == IF a.ret \/ e.ret
             THEN [readGL5539(adcValue) EXCEPT !.ret = FALSE, !.g_light_level = g_light_level]
             ELSE readGL5539(adcValue)
      anyDataRead == a.ret \/ e.ret \/ l.ret
      d == IF a.delayed THEN Ticks(AHT21_MEASURE_DELAY_MS) ELSE 0
  IN  /\ phase = "loop"
      /\ CanAdvance(d)
      /\ Elapse(d)
      /\ g_temperature' = a.g_temperature
      /\ g_humidity' = a.g_humidity
      /\ g_co2' = e.g_co2
      /\ g_voc' = e.g_voc
      /\ g_light_level' = l.g_light_level
      /\ g_motion' = MotionFrom(draw)
      /\ g_sensor_data_valid' = ValidityAfter(anyDataRead, clock' % MillisWrap)[1]
      /\ g_last_sensor_update' = ValidityAfter(anyDataRead, clock' % MillisWrap)[2]
      /\ updatedAt' = IF anyDataRead THEN clock' ELSE updatedAt
      /\ op' = [name |-> "readAllSensors", ret |-> anyDataRead, aht |-> a, ens |-> e, light |-> l,
                in |-> [aht |-> aht, ens |-> ens, adcValue |-> adcValue]]
      /\ sent' = << >>
      /\ UNCHANGED <<phase, wsConnected>>

\* readAllSensors on the bus answers aht and ens, the ADC sample adcValue and
\* the draw of random(0, 100).
readAllSensors(aht, ens, adcValue, draw) ==
  LET a == readAHT21(aht)
      e == readENS160(ens)
      l == readGL5539(adcValue)
      anyDataRead == a.ret \/ e.ret \/ l.ret
      d == IF a.delayed THEN Ticks(AHT21_MEASURE_DELAY_MS) ELSE 0
  IN  /\ phase = "loop"
      /\ CanAdvance(d)
      /\ Elapse(d)
      /\ g_temperature' = a.g_temperature
      /\ g_humidity' = a.g_humidity
      /\ g_co2' = e.g_co2
      /\ g_voc' = e.g_voc
      /\ g_light_level' = l.g_light_level
      /\ g_motion' = MotionFrom(draw)
      /\ g_sensor_data_valid' = ValidityAfter(anyDataRead, clock' % MillisWrap)[1]
      /\ g_last_sensor_update' = ValidityAfter(anyDataRead, clock' % MillisWrap)[2]
      /\ updatedAt' = IF anyDataRead THEN clock' ELSE updatedAt
      /\ op' = [name |-> "readAllSensors", ret |-> anyDataRead, aht |-> a, ens |-> e, light |-> l,
                in |-> [aht |-> aht, ens |-> ens, adcValue |-> adcValue]]
      /\ sent' = << >>
      /\ UNCHANGED <<phase, wsConnected>>

\* ------------------------------------------------------------ bus answers
\* endTransmission returns 2 when the address is not acknowledged.
AHT21NoAck == [err |-> 2, avail |-> 0, data |-> <<0, 0, 0, 0, 0, 0>>]
AHT21Short == [err |-> 0, avail |-> 0, data |-> <<0, 0, 0, 0, 0, 0>>]
\* humidity_raw = h, temperature_raw = t as the six bytes of a measurement.
AHT21Measurement(status, h, t) ==
  AHT21Frame(status, h \div 4096, (h \div 16) % 256, (h % 16) * 16 + t \div 65536,
             (t \div 256) % 256, t % 256)
AHT21Answers ==
  { AHT21NoAck, AHT21Short,
    AHT21Measurement(152, 524288, 393216),    \* busy, 50 %, 25 C
    AHT21Measurement(24, 524288, 393216),     \* 50 %, 25 C
    AHT21Measurement(24, 1048575, 52429),     \* 99.9999 %, just above -40 C
    AHT21Measurement(24, 0, 52428),           \* 0 %, just below -40 C
    AHT21Measurement(24, 700001, 707788),     \* 66.76 %, just below 85 C
    AHT21Measurement(24, 700001, 707789),     \* just above 85 C
    AHT21Measurement(24, 524288, 1048575) }   \* 150 C

Word(v) == <<v % 256, v \div 256>>
ENS160Answer(statusErr, statusAvail, status, aqi, tvoc, eco2, leftFirst) ==
  [status |-> RegisterRead(statusErr, statusAvail, <<status>>),
   aqi |-> aqi, tvoc |-> tvoc, eco2 |-> eco2, leftFirst |-> leftFirst]
Read1(v) == RegisterRead(0, 1, <<v>>)
Read2(v) == RegisterRead(0, 2, Word(v))
Failed1 == RegisterRead(2, 0, <<0>>)
Failed2 == RegisterRead(2, 0, <<0, 0>>)
ENS160Ready(aqi, tvoc, eco2, leftFirst) == ENS160Answer(0, 1, 3, aqi, tvoc, eco2, leftFirst)
ENS160NoAck == ENS160Answer(2, 0, 0, Failed1, Failed2, Failed2, TRUE)
ENS160NoStatus == ENS160Answer(0, 0, 0, Failed1, Failed2, Failed2, TRUE)
ENS160NotReady == ENS160Answer(0, 1, 1, Read1(1), Read2(20), Read2(450), TRUE)
ENS160Answers ==
  { ENS160NoAck, ENS160NoStatus, ENS160NotReady }
  \cup { ENS160Ready(Read1(2), Read2(v[1]), Read2(v[2]), TRUE) :
           v \in { <<20, 450>>, <<20, 300>>, <<9999, 301>>, <<9999, 4999>>, <<20, 5000>>,
                   <<10000, 450>> } }
  \cup { ENS160Ready(Read1(2), Read2(20), Read2(450), FALSE),
         ENS160Ready(Failed1, Read2(20), Read2(450), TRUE),
         ENS160Ready(Read1(2), Failed2, Read2(450), TRUE),
         ENS160Ready(Read1(2), Read2(20), Failed2, TRUE) }

ADCSamples == {9, 10, 16, 17, 1022, 1023}

\* Polls of the driver study: one driver's answer varies, the others fail, and
\* a few cycles in which several drivers answer at once.
DriverPolls ==
  { <<a, ENS160NoAck, 1023, 5>> : a \in AHT21Answers }
  \cup { <<AHT21NoAck, e, 1023, 5>> : e \in ENS160Answers }
  \cup { <<AHT21NoAck, ENS160NoAck, adc, 5>> : adc \in ADCSamples }
  \cup { <<AHT21Short, ENS160NotReady, 1024, 4>>,
         <<AHT21Measurement(24, 524288, 393216), ENS160Ready(Read1(2), Read2(20), Read2(450), TRUE), 17, 4>>,
         <<AHT21Measurement(24, 524288, 1048575), ENS160Ready(Read1(2), Read2(20), Failed2, TRUE), 9, 4>> }

\* ------------------------------------------------------------ composer
DEVICE_ID == "WiFi.macAddress()"

\* The six random() draws of the fallback branch of sendSensorData.
Draws(t, h, c, v, l, m) == [temperature |-> t, humidity |-> h, co2 |-> c, voc |-> v,
                            light_level |-> l, motion |-> m]
DrawVectors ==
  { Draws(-50, -200, -50, -10, -100, 9), Draws(49, 199, 79, 24, 299, 10) }

\* Mutant: the temperature draw is divided by 10.0 instead of 100.0.
SimulatedTemperature_tenths(r) == ToFloat(((235 + r) * TempUnit + 5) \div 10)

\* 23.5 + random(-50, 50) / 100.0 and 55.0 + random(-200, 200) / 100.0: the
\* double is stored in a float, that is, rounded to the nearest unit (no
\* hundredth lies halfway between two units).
SimulatedTemperature(r) == ToFloat(((2350 + r) * TempUnit + 50) \div 100)
SimulatedHumidity(r) == ToFloat(((5500 + r) * HumUnit + 50) \div 100)

\* Mutant: the fresh branch copies g_voc into co2 and g_co2 into voc.
PayloadValues_swapped(draws) ==
  IF g_sensor_data_valid /\ isSensorDataValid
    THEN [temperature |-> g_temperature, humidity |-> g_humidity, co2 |-> g_voc,
          voc |-> g_co2, light_level |-> g_light_level, motion |-> g_motion]
    ELSE [temperature |-> SimulatedTemperature(draws.temperature),
          humidity |-> SimulatedHumidity(draws.humidity),
          co2 |-> 420 + draws.co2,
          voc |-> 15 + draws.voc,
          light_level |-> 300 + draws.light_level,
          motion |-> draws.motion < 10]

\* The six values sendSensorData puts in the document.
PayloadValues(draws) ==
  IF g_sensor_data_valid /\ isSensorDataValid
    THEN [temperature |-> g_temperature, humidity |-> g_humidity, co2 |-> g_co2,
          voc |-> g_voc, light_level |-> g_light_level, motion |-> g_motion]
    ELSE [temperature |-> SimulatedTemperature(draws.temperature),
          humidity |-> SimulatedHumidity(draws.humidity),
          co2 |-> 420 + draws.co2,
          voc |-> 15 + draws.voc,
          light_level |-> 300 + draws.light_level,
          motion |-> draws.motion < 10]

SourceTag == IF g_sensor_data_valid THEN "esp8266_real_sensors" ELSE "esp8266_simulated"
DataTypeTag == IF g_sensor_data_valid THEN "real" ELSE "simulated"

SensorDocument(draws) ==
  LET v == PayloadValues(draws)
  IN  [type |-> "control",
       commands |-> << [device |-> "sensors", action |-> "data_update", location |-> TARGET_ROOM,
                        parameters |->
                          [temperature |-> v.temperature, humidity |-> v.humidity,
                           co2 |-> v.co2, voc |-> v.voc, light_level |-> v.light_level,
                           motion |-> v.motion, device_id |-> DEVICE_ID,
                           source |-> SourceTag, data_type |-> DataTypeTag,
                           timestamp |-> millis]] >>]

\* What sendSensorData hands to webSocket.sendTXT.
SensorDataSent(draws) == IF ~wsConnected THEN << >> ELSE << SensorDocument(draws) >>

\* Mutant: a send that sendTXT reports as failed marks the session disconnected.
sendSensorData_dropsOnFailure(draws, result) ==
  /\ phase = "loop"
  /\ sent' = SensorDataSent(draws)
  /\ op' = [name |-> "sendSensorData", connected |-> wsConnected,
            fresh |-> g_sensor_data_valid /\ isSensorDataValid, result |-> wsConnected /\ result]
  /\ wsConnected' = (wsConnected /\ result)
  /\ UNCHANGED <<phase, reading, validity, time>>

\* sendSensorData; result is what sendTXT returns.
sendSensorData(draws, result) ==
  /\ phase = "loop"
  /\ sent' = SensorDataSent(draws)
  /\ op' = [name |-> "sendSensorData", connected |-> wsConnected,
            fresh |-> g_sensor_data_valid /\ isSensorDataValid, result |-> wsConnected /\ result]
  /\ UNCHANGED <<phase, reading, validity, wsConnected, time>>

PingDocument ==
  [type |-> "ping", device_id |-> DEVICE_ID, location |-> TARGET_ROOM, timestamp |-> millis,
   sensor_status |-> IF g_sensor_data_valid THEN "active" ELSE "inactive"]

\* Mutant: a ping sent while the reading is stale marks the data invalid.
sendPing_clearsStale ==
  /\ phase = "loop"
  /\ sent' = (IF ~wsConnected THEN << >> ELSE << PingDocument >>)
  /\ op' = [name |-> "sendPing", connected |-> wsConnected]
  /\ g_sensor_data_valid' = isSensorDataValid
  /\ UNCHANGED <<phase, reading, g_last_sensor_update, wsConnected, time>>

\* Mutant: sendPing without its connection guard.
PingSent_unguarded == << PingDocument >>

\* What sendPing hands to webSocket.sendTXT.
PingSent == IF ~wsConnected THEN << >> ELSE << PingDocument >>

sendPing ==
  /\ phase = "loop"
  /\ sent' = PingSent
  /\ op' = [name |-> "sendPing", connected |-> wsConnected]
  /\ UNCHANGED <<phase, reading, validity, wsConnected, time>>

\* ------------------------------------------------------------ dispatcher
\* An inbound text: whether deserializeJson accepts it, and the members of the
\* document; Absent marks a member the document does not have.
Absent == "<absent>"
Text(type, location) == [wellFormed |-> TRUE, type |-> type, location |-> location,
                         sensors |-> [co2 |-> 999, voc |-> 99]]
Malformed == [wellFormed |-> FALSE, type |-> Absent, location |-> Absent,
              sensors |-> [co2 |-> 999, voc |-> 99]]

\* JsonVariant::as<String>(): a string member as it is; a missing member is
\* null, which ArduinoJson 6 serializes: "null".
AsString(member) == IF member = Absent THEN "null" ELSE member

\* The branch of handleMessage a text ends in.
Dispatch(message) ==
  LET type == AsString(message.type)
      location == AsString(message.location)
  IN  IF ~message.wellFormed THEN "parse_error"
      ELSE IF location # "" /\ location # TARGET_ROOM THEN "ignored"
      ELSE IF type = "init" THEN "init"
      ELSE IF type = "control_results" THEN "control_results"
      ELSE IF type = "sensor_update" THEN "sensor_update"
      ELSE IF type = "device_update" THEN "device_update"
      ELSE IF type = "error" THEN "error"
      ELSE "other"

\* Mutant: a sensor_update overwrites the local air-quality reading.
handleMessage_applies(message) ==
  /\ op' = [name |-> "webSocketEvent", type |-> "WStype_TEXT", message |-> message,
            branch |-> Dispatch(message)]
  /\ g_co2' = IF Dispatch(message) = "sensor_update" THEN message.sensors.co2 ELSE g_co2
  /\ g_voc' = IF Dispatch(message) = "sensor_update" THEN message.sensors.voc ELSE g_voc
  /\ UNCHANGED <<g_temperature, g_humidity, g_light_level, g_motion, validity, wsConnected>>

handleMessage(message) ==
  /\ op' = [name |-> "webSocketEvent", type |-> "WStype_TEXT", message |-> message,
            branch |-> Dispatch(message)]
  /\ UNCHANGED <<reading, validity, wsConnected>>

\* ------------------------------------------------------------ transport events
\* Mutant: the WStype_CONNECTED case returns without waiting.
ConnectedSettle_none == Ticks(0)

\* delay(3000) of the WStype_CONNECTED case.
ConnectedSettle == Ticks(SETTLE_DELAY_MS)

Quiet(type) == op' = [name |-> "webSocketEvent", type |-> type]

\* Mutant: the WStype_CONNECTED case does not set wsConnected.
webSocketEvent_ignoresConnected(type, payload) ==
  /\ phase = "loop"
  /\ sent' = << >>
  /\ UNCHANGED phase
  /\ \/ /\ type = "WStype_DISCONNECTED"
        /\ wsConnected' = FALSE
        /\ Quiet(type)
        /\ UNCHANGED <<reading, validity, time>>
     \/ /\ type = "WStype_CONNECTED"
        /\ CanAdvance(ConnectedSettle)
        /\ Advance(ConnectedSettle)
        /\ sinceConnect' = Capped(ConnectedSettle)
        /\ Quiet(type)
        /\ UNCHANGED <<reading, validity, wsConnected, updatedAt>>
     \/ /\ type = "WStype_TEXT"
        /\ handleMessage(payload)
        /\ UNCHANGED time
     \/ /\ type \notin {"WStype_DISCONNECTED", "WStype_CONNECTED", "WStype_TEXT"}
        /\ Quiet(type)
        /\ UNCHANGED <<reading, validity, wsConnected, time>>

webSocketEvent(type, payload) ==
  /\ phase = "loop"
  /\ sent' = << >>
  /\ UNCHANGED phase
  /\ \/ /\ type = "WStype_DISCONNECTED"
        /\ wsConnected' = FALSE
        /\ Quiet(type)
        /\ UNCHANGED <<reading, validity, time>>
     \/ /\ type = "WStype_CONNECTED"
        /\ wsConnected' = TRUE
        /\ CanAdvance(ConnectedSettle)
        /\ Advance(ConnectedSettle)
        /\ sinceConnect' = Capped(ConnectedSettle)
        /\ Quiet(type)
        /\ UNCHANGED <<reading, validity, updatedAt>>
     \/ /\ type = "WStype_TEXT"
        /\ handleMessage(payload)
        /\ UNCHANGED time
     \/ /\ type \notin {"WStype_DISCONNECTED", "WStype_CONNECTED", "WStype_TEXT"}
        /\ Quiet(type)
        /\ UNCHANGED <<reading, validity, wsConnected, time>>

\* ------------------------------------------------------------ environment
\* Time passing between two operations of the main loop.
TickDelays == { Ticks(STALE_THRESHOLD_MS) - 1, Ticks(STALE_THRESHOLD_MS),
                MillisWrap - Ticks(STALE_THRESHOLD_MS) }
Tick(d) ==
  /\ phase = "loop"
  /\ CanAdvance(d)
  /\ Elapse(d)
  /\ op' = [name |-> "tick"]
  /\ sent' = << >>
  /\ UNCHANGED <<phase, reading, validity, wsConnected, updatedAt>>

InboundTexts ==
  { Malformed,
    Text("init", TARGET_ROOM), Text("control_results", TARGET_ROOM),
    Text("sensor_update", TARGET_ROOM), Text("device_update", TARGET_ROOM),
    Text("error", TARGET_ROOM), Text("status", TARGET_ROOM),
    Text("sensor_update", "kitchen"), Text("init", "bedroom"),
    Text("sensor_update", ""), Text("init", Absent), Text(Absent, TARGET_ROOM) }

\* The events the WebSockets client delivers: a connection is established
\* only while there is none, and frames arrive only over a connection.
Events ==
  { <<"WStype_DISCONNECTED", Malformed>>, <<"WStype_ERROR", Malformed>> }
  \cup (IF wsConnected
          THEN { <<"WStype_TEXT", m>> : m \in InboundTexts }
               \cup { <<"WStype_PING", Malformed>>, <<"WStype_PONG", Malformed>>,
                      <<"WStype_BIN", Malformed>> }
          ELSE { <<"WStype_CONNECTED", Malformed>> })

\* Poll cycles of the device study.
DevicePolls ==
  { <<AHT21NoAck, ENS160NoAck, 1023, 5>>,
    <<AHT21NoAck, ENS160Ready(Read1(2), Read2(20), Read2(450), TRUE), 1023, 4>>,
    <<AHT21NoAck, ENS160Ready(Read1(2), Read2(20), Read2(450), FALSE), 1023, 5>>,
    <<AHT21Measurement(24, 524288, 393216), ENS160NotReady, 1023, 5>> }

Boot == (\E deviceCount \in {0, 2} : scanI2CDevices(deviceCount)) /\ UNCHANGED sinceFail

PollDrivers ==
  \E p \in DriverPolls : readAllSensors(p[1], p[2], p[3], p[4])

NextSensors == Boot \/ PollDrivers

SpecSensors == Init /\ [][NextSensors]_vars

PollDevice ==
  \E p \in DevicePolls : readAllSensors(p[1], p[2], p[3], p[4])

SendData ==
  (\E draws \in DrawVectors, result \in BOOLEAN : sendSensorData(draws, result))
    /\ UNCHANGED sinceFail

Ping == sendPing /\ UNCHANGED sinceFail

\* The WebSockets client delivering an event to webSocketEvent: a lost
\* connection restarts its reconnect timer.
Deliver(type, payload) ==
  /\ webSocketEvent(type, payload)
  /\ sinceFail' = IF type = "WStype_DISCONNECTED" THEN 0
                  ELSE IF type = "WStype_CONNECTED" THEN Waited(sinceFail + ConnectedSettle)
                  ELSE sinceFail

Event == \E e \in Events : Deliver(e[1], e[2])

Pass == \E d \in TickDelays : Tick(d)

Next == Boot \/ PollDevice \/ SendData \/ Ping \/ Event \/ Pass

Spec == Init /\ [][Next]_vars

\* ------------------------------------------------------------ light sensor
\* Every value analogRead can return, with the other drivers failing.  Each
\* sample is taken from the initial light level and after each of ADCSamples.
LightSampled == op.name = "readAllSensors" /\ op.in.adcValue \notin ADCSamples
PollLight ==
  /\ ~LightSampled
  /\ \E adcValue \in 0..GL5539_ADC_MAX : readAllSensors(AHT21NoAck, ENS160NoAck, adcValue, 5)

NextLight == Boot \/ PollLight

SpecLight == Init /\ [][NextLight]_vars

\* ------------------------------------------------------------ reconnection
\* The WebSockets client, configured by setReconnectInterval(10000): while
\* there is no connection it waits until RECONNECT_INTERVAL_MS have passed
\* since the connection last failed and then attempts to connect; a failed
\* attempt restarts the timer, a successful one is reported by
\* WStype_CONNECTED.  The client keeps no count of its attempts.  A run keeps
\* room for the wait and the settle delay of one more attempt.
ReconnectWait ==
  /\ ~wsConnected
  /\ sinceFail < Ticks(RECONNECT_INTERVAL_MS)
  /\ Tick(Ticks(RECONNECT_INTERVAL_MS) - sinceFail)

ReconnectDue == ~wsConnected /\ sinceFail >= Ticks(RECONNECT_INTERVAL_MS)

ConnectSucceeds ==
  /\ ReconnectDue
  /\ Deliver("WStype_CONNECTED", Malformed)

ConnectFails ==
  /\ phase = "loop"
  /\ ReconnectDue
  /\ advances + 2 <= MaxAdvances
  /\ sinceFail' = 0
  /\ op' = [name |-> "connectFailed"]
  /\ sent' = << >>
  /\ UNCHANGED <<phase, reading, validity, wsConnected, time>>

ConnectionLost ==
  /\ wsConnected
  /\ advances + 2 <= MaxAdvances
  /\ Deliver("WStype_DISCONNECTED", Malformed)

\* The events that neither open nor close the connection.
Inbound ==
  \E e \in Events :
    /\ e[1] \notin {"WStype_DISCONNECTED", "WStype_CONNECTED"}
    /\ Deliver(e[1], e[2])

NextReconnect ==
  Boot \/ ReconnectWait \/ ConnectSucceeds \/ ConnectFails \/ ConnectionLost
    \/ SendData \/ Ping \/ Inbound

\* Time passes, and an attempt that is due again and again succeeds at last.
SpecReconnect ==
  /\ Init /\ [][NextReconnect]_vars
  /\ WF_vars(Boot) /\ WF_vars(ReconnectWait) /\ SF_vars(ConnectSucceeds)

\* ============================================================ claims
Polled == op.name = "readAllSensors"
DataSent == op.name = "sendSensorData" /\ sent # << >>
Parameters == sent[1].commands[1].parameters
Timestamp(doc) == IF doc.type = "ping" THEN doc.timestamp ELSE doc.commands[1].parameters.timestamp
RealElapsed == clock - updatedAt

\* C1: a data message composed while the validity gate is not fresh is tagged
\* simulated in both its source and its data_type parameter.
C1_StaleMessageTaggedSimulated ==
  (DataSent /\ ~isSensorDataValid)
    => (Parameters.source = "esp8266_simulated" /\ Parameters.data_type = "simulated")

\* C2: the gate is fresh right after a cycle in which a driver succeeded, and
\* is not fresh at any time more than 60 s after the last such cycle.
C2_GateStaleAfterThreshold ==
  /\ (Polled /\ op.ret) => isSensorDataValid
  /\ (updatedAt >= 0 /\ RealElapsed > Ticks(STALE_THRESHOLD_MS)) => ~isSensorDataValid

\* C3: a cycle with a success sets g_sensor_data_valid and stamps
\* g_last_sensor_update with the current millis(); a cycle without one leaves
\* both as they were.
C3_CycleValidity ==
  [][Polled' =>
       IF op'.ret
         THEN g_sensor_data_valid' /\ g_last_sensor_update' = clock' % MillisWrap
         ELSE UNCHANGED validity]_vars
\* A cycle without success, after an earlier success and some time, with motion drawn.
C3_Witness ==
  Polled /\ ~op.ret /\ g_sensor_data_valid /\ g_last_sensor_update # millis /\ g_motion

\* C4: a send while connected and fresh carries the six SensorReading globals
\* verbatim, tagged real; a cycle whose air-quality driver read CO2 = 450 and
\* TVOC = 20 leaves g_co2 = 450, g_voc = 20 and the gate fresh.
C4_FreshSendsReadingVerbatim ==
  /\ (op.name = "sendSensorData" /\ wsConnected /\ isSensorDataValid) =>
       /\ Len(sent) = 1
       /\ Parameters.temperature = g_temperature
       /\ Parameters.humidity = g_humidity
       /\ Parameters.co2 = g_co2
       /\ Parameters.voc = g_voc
       /\ Parameters.light_level = g_light_level
       /\ Parameters.motion = g_motion
       /\ Parameters.data_type = "real"
  /\ (Polled /\ op.ens.decoded /\ op.ens.co2 = 450 /\ op.ens.tvoc = 20) =>
       (g_co2 = 450 /\ g_voc = 20 /\ isSensorDataValid)
C4_Witness ==
  /\ DataSent /\ wsConnected /\ isSensorDataValid
  /\ Parameters.co2 = 450 /\ Parameters.voc = 20 /\ Parameters.data_type = "real"

\* C5: a driver whose bus transaction failed returns failure and leaves the
\* fields it owns unchanged, the air-quality driver's sub-register reads included.
C5_FailedTransactionFailsDriver ==
  [][Polled' =>
       /\ op'.aht.busFailed => (~op'.aht.ret /\ UNCHANGED <<g_temperature, g_humidity>>)
       /\ op'.ens.busFailed => (~op'.ens.ret /\ UNCHANGED <<g_co2, g_voc>>)]_vars

\* C6: g_temperature stays within [-40, 85] and g_humidity within [0, 100]; a
\* readAHT21 call that finds the busy flag or decodes a value outside these
\* ranges returns false; the two globals change only together, to the decoded
\* values of a call that returned true.
TemperatureHumidityInRange ==
  /\ g_temperature >= -40 * TempUnit /\ g_temperature <= 85 * TempUnit
  /\ g_humidity >= 0 /\ g_humidity <= 100 * HumUnit
AHT21OutOfRange(r) ==
  r.decoded /\ (\/ r.temperature < -40 * TempUnit \/ r.temperature > 85 * TempUnit
                \/ r.humidity < 0 \/ r.humidity > 100 * HumUnit)
C6_TemperatureHumidityRange ==
  /\ TemperatureHumidityInRange
  /\ [][/\ TemperatureHumidityInRange'
        /\ (Polled' /\ (op'.aht.busy \/ AHT21OutOfRange(op'.aht))) =>
             (~op'.aht.ret /\ UNCHANGED <<g_temperature, g_humidity>>)
        /\ (g_temperature' # g_temperature \/ g_humidity' # g_humidity) =>
             /\ Polled' /\ op'.aht.ret
             /\ g_temperature' = op'.aht.temperature
             /\ g_humidity' = op'.aht.humidity]_vars
\* An out-of-range measurement rejected after an earlier one was accepted.
C6_Witness ==
  /\ Polled /\ AHT21OutOfRange(op.aht) /\ ~op.aht.ret
  /\ g_temperature = 25 * TempUnit /\ g_humidity = 50 * HumUnit

\* C7: g_co2 stays strictly between 300 and 5000 and g_voc below 10000;
\* readENS160 overwrites them only with a reading inside these limits, and a
\* reading of CO2 = 300, CO2 = 5000 or TVOC = 10000 is rejected with both unchanged.
AirQualityInRange == g_co2 > 300 /\ g_co2 < 5000 /\ g_voc < 10000
C7_AirQualityRange ==
  /\ AirQualityInRange
  /\ [][/\ AirQualityInRange'
        /\ (Polled' /\ op'.ens.decoded
              /\ (op'.ens.co2 <= 300 \/ op'.ens.co2 >= 5000 \/ op'.ens.tvoc >= 10000)) =>
             (~op'.ens.ret /\ UNCHANGED <<g_co2, g_voc>>)
        /\ (g_co2' # g_co2 \/ g_voc' # g_voc) =>
             /\ Polled' /\ op'.ens.ret
             /\ g_co2' = op'.ens.co2 /\ g_voc' = op'.ens.tvoc]_vars
\* A boundary reading rejected after an earlier reading was accepted.
C7_Witness ==
  /\ Polled /\ op.ens.decoded /\ ~op.ens.ret
  /\ op.ens.co2 \in {300, 5000} /\ g_co2 = 450 /\ g_voc = 20

\* C8: a send or ping requested while disconnected hands nothing to the
\* transport; whatever is handed over was composed in the same call, while
\* connected.
C8_DisconnectedSendsNothing ==
  /\ (op.name \in {"sendSensorData", "sendPing"} /\ ~wsConnected) => sent = << >>
  /\ sent # << >> =>
       /\ wsConnected
       /\ op.name \in {"sendSensorData", "sendPing"}
       /\ Len(sent) = 1
       /\ Timestamp(sent[1]) = millis
\* A send dropped while disconnected, after an earlier connection.
C8_Witness ==
  op.name \in {"sendSensorData", "sendPing"} /\ ~wsConnected /\ sinceConnect >= 0 /\ sent = << >>

\* C9: handleMessage leaves SensorReading, the validity state and wsConnected
\* unchanged for every text, and a text whose location is non-empty and not
\* TARGET_ROOM ends before the dispatch on type.
TextHandled == op.name = "webSocketEvent" /\ op.type = "WStype_TEXT"
C9_DispatcherMutatesNothing ==
  [][TextHandled' =>
       /\ UNCHANGED <<reading, validity, wsConnected>>
       /\ (op'.message.wellFormed /\ op'.message.location \notin {Absent, "", TARGET_ROOM})
            => op'.branch = "ignored"]_vars
\* sensor_update for the kitchen, discarded while a real reading is stored.
C9_Witness ==
  /\ TextHandled /\ op.message = Text("sensor_update", "kitchen") /\ op.branch = "ignored"
  /\ g_co2 = 450 /\ g_sensor_data_valid

\* C10: nothing is handed to the transport less than 3 seconds after a
\* WStype_CONNECTED event.
C10_SettleBeforeSend ==
  sent # << >> => sinceConnect >= Ticks(SETTLE_DELAY_MS)
\* A message handed over right after the settle delay of a reconnection.
C10_Witness ==
  sent # << >> /\ clock = 2 * Ticks(SETTLE_DELAY_MS) /\ advances = 2

\* C11: the session goes Disconnected -> Connected -> Disconnected: a
\* WStype_CONNECTED event makes it Connected, and a WStype_DISCONNECTED or a
\* WStype_ERROR event makes it Disconnected, so that nothing is handed to the
\* transport after a transport error until the next WStype_CONNECTED event.
TransportEvent(type) == op.name = "webSocketEvent" /\ op.type = type
C11_ErrorDisconnects ==
  /\ ~wsConnected
  /\ [][/\ TransportEvent("WStype_CONNECTED")' => wsConnected'
        /\ TransportEvent("WStype_DISCONNECTED")' => ~wsConnected'
        /\ TransportEvent("WStype_ERROR")' => ~wsConnected'
        /\ TransportEvent("WStype_ERROR") => sent' = << >>]_vars

\* C12: every sendSensorData call made while connected hands the transport
\* exactly one document of type "control" with exactly one sensors/data_update
\* command for TARGET_ROOM carrying all ten parameters, whatever sendTXT
\* returns; values synthesized because the gate is not fresh lie in
\* temperature [23.0, 24.0], humidity [53.0, 57.0], co2 [370, 500],
\* voc [5, 40] and light_level [200, 600].
ParameterNames ==
  {"temperature", "humidity", "co2", "voc", "light_level", "motion",
   "device_id", "source", "data_type", "timestamp"}
C12_ComposesOneEnvelope ==
  (op.name = "sendSensorData" /\ op.connected) =>
    /\ Len(sent) = 1
    /\ sent[1].type = "control"
    /\ Len(sent[1].commands) = 1
    /\ sent[1].commands[1].device = "sensors"
    /\ sent[1].commands[1].action = "data_update"
    /\ sent[1].commands[1].location = TARGET_ROOM
    /\ DOMAIN Parameters = ParameterNames
    /\ ~op.fresh =>
         /\ Parameters.temperature >= 23 * TempUnit /\ Parameters.temperature <= 24 * TempUnit
         /\ Parameters.humidity >= 53 * HumUnit /\ Parameters.humidity <= 57 * HumUnit
         /\ Parameters.co2 >= 370 /\ Parameters.co2 <= 500
         /\ Parameters.voc >= 5 /\ Parameters.voc <= 40
         /\ Parameters.light_level >= 200 /\ Parameters.light_level <= 600
\* Synthesized values at the upper draws, handed over although sendTXT fails.
C12_Witness ==
  /\ DataSent /\ op.connected /\ ~op.fresh /\ ~op.result
  /\ Parameters.co2 = 499 /\ Parameters.voc = 39 /\ Parameters.light_level = 599

\* C13: while the session is disconnected a connect attempt is made each time
\* 10 seconds have passed since the connection last failed, with the same
\* interval after every failure; and, attempts that are due again and again
\* succeeding at last, a disconnected session becomes connected however many
\* attempts failed before.
ConnectAttempt == ~wsConnected /\ (wsConnected' \/ op'.name = "connectFailed")
C13_ReconnectsEventually ==
  /\ [][ConnectAttempt => sinceFail = Ticks(RECONNECT_INTERVAL_MS)]_vars
  /\ ~wsConnected ~> wsConnected
\* Connected by the third attempt, 10 s after the second failed.
C13_Witness ==
  /\ wsConnected /\ advances = 3
  /\ clock = 2 * Ticks(RECONNECT_INTERVAL_MS) + Ticks(SETTLE_DELAY_MS)

\* C14: a poll cycle runs each enabled driver exactly once, whatever the
\* drivers before it returned, and the drivers write disjoint fields: the
\* SensorReading and the any-success result the cycle leaves are those of
\* running the three drivers once each, in any of the six orders, on the same
\* raw inputs.
DriverOrders ==
  { <<"AHT21", "ENS160", "GL5539">>, <<"AHT21", "GL5539", "ENS160">>,
    <<"ENS160", "AHT21", "GL5539">>, <<"ENS160", "GL5539", "AHT21">>,
    <<"GL5539", "AHT21", "ENS160">>, <<"GL5539", "ENS160", "AHT21">> }
DriverRun(driver, in, s) ==
  CASE driver = "AHT21" ->
         LET r == readAHT21(in.aht)
         IN  IF r.ret THEN [s EXCEPT !.temperature = r.temperature,
                                     !.humidity = r.humidity, !.any = TRUE]
                      ELSE s
    [] driver = "ENS160" ->
         LET r == readENS160(in.ens)
         IN  IF r.ret THEN [s EXCEPT !.co2 = r.co2, !.voc = r.tvoc, !.any = TRUE] ELSE s
    [] driver = "GL5539" ->
         LET r == readGL5539(in.adcValue)
         IN  IF r.ret THEN [s EXCEPT !.light_level = r.lux, !.any = TRUE] ELSE s
RECURSIVE DriversRun(_, _, _)
DriversRun(order, in, s) ==
  IF order = << >> THEN s
  ELSE DriversRun(Tail(order), in, DriverRun(Head(order), in, s))
C14_DriverOrderIrrelevant ==
  [][Polled' =>
       \A order \in DriverOrders :
         DriversRun(order, op'.in,
                    [temperature |-> g_temperature, humidity |-> g_humidity, co2 |-> g_co2,
                     voc |-> g_voc, light_level |-> g_light_level, any |-> FALSE])
           = [temperature |-> g_temperature', humidity |-> g_humidity', co2 |-> g_co2',
              voc |-> g_voc', light_level |-> g_light_level', any |-> op'.ret]]_vars
\* All three drivers succeed in one cycle, the first having succeeded.
C14_Witness ==
  /\ Polled /\ op.aht.ret /\ op.ens.ret /\ op.light.ret
  /\ g_temperature = 25 * TempUnit /\ g_co2 = 450 /\ g_light_level = 9517

\* C15: a well-formed text whose location is absent, empty or TARGET_ROOM is
\* not discarded but dispatched on its type to exactly one of the six
\* branches (init, control_results, sensor_update, device_update, error,
\* other); a text that fails to decode is discarded before its location or
\* type is looked at, and later texts are still processed.
BranchOfType(type) ==
  IF type \in {"init", "control_results", "sensor_update", "device_update", "error"}
    THEN type ELSE "other"
C15_OwnRoomDispatched ==
  TextHandled =>
    /\ (op.message.wellFormed /\ op.message.location \in {Absent, "", TARGET_ROOM})
         => op.branch = BranchOfType(op.message.type)
    /\ ~op.message.wellFormed => op.branch = "parse_error"

\* C16: wsConnected is written only by webSocketEvent, to true on
\* WStype_CONNECTED and to false on WStype_DISCONNECTED; text, ping, pong and
\* unknown events, sendSensorData (also when sendTXT fails), sendPing,
\* handleMessage and readAllSensors leave it as it was.
C16_OnlyEventsWriteConnected ==
  [][/\ wsConnected' # wsConnected =>
          \/ TransportEvent("WStype_CONNECTED")' /\ wsConnected'
          \/ TransportEvent("WStype_DISCONNECTED")' /\ ~wsConnected'
     /\ (op'.name \in {"sendSensorData", "sendPing", "readAllSensors"}
           \/ (op'.name = "webSocketEvent"
                 /\ op'.type \in {"WStype_TEXT", "WStype_PING", "WStype_PONG", "WStype_BIN"}))
          => UNCHANGED wsConnected]_vars
\* Still connected after a send for which sendTXT reported a failure.
C16_Witness ==
  op.name = "sendSensorData" /\ op.connected /\ ~op.result /\ sent # << >> /\ wsConnected

\* C17: for every ADC sample in 0..1024 readGL5539 divides only by
\* GL5539_ADC_MAX - adcValue >= 2, samples of 1023 and more being rejected
\* before; it rejects every sample below the noise floor of 10 and every
\* result outside [0, 10000] lux, leaving g_light_level as it was; and
\* g_light_level is within [0, 10000] in every state.
LightInRange == g_light_level >= 0 /\ g_light_level <= 10000
C17_LightNeverDividesByZero ==
  /\ LightInRange
  /\ [][/\ LightInRange'
        /\ Polled' =>
             /\ op'.light.divided => op'.light.denominator >= 2
             /\ op'.in.adcValue >= GL5539_ADC_MAX - 1 => ~op'.light.divided
             /\ (\/ op'.in.adcValue < 10
                 \/ op'.in.adcValue >= GL5539_ADC_MAX - 1
                 \/ op'.light.lux < 0 \/ op'.light.lux > 10000)
                  => (~op'.light.ret /\ UNCHANGED g_light_level)
             /\ op'.light.ret => g_light_level' = op'.light.lux]_vars
\* A sample whose curve value is above 10000 lux rejected, an accepted level kept.
C17_Witness ==
  /\ Polled /\ op.in.adcValue = 11 /\ op.light.divided /\ op.light.lux > 10000
  /\ ~op.light.ret /\ g_light_level = 9517

\* C18: once a poll cycle has succeeded g_sensor_data_valid stays true in
\* every later state, whatever polls, sends, pings, events and waits follow:
\* no operation but the start-up bus scan clears it, and the scan runs before
\* the first cycle only.
C18_ValidNeverCleared ==
  /\ [][(g_sensor_data_valid /\ op'.name # "scanI2CDevices") => g_sensor_data_valid']_vars
  /\ [][updatedAt >= 0 => (g_sensor_data_valid /\ g_sensor_data_valid')]_vars
\* Still marked valid when the reading is stale and a synthesized message goes out.
C18_Witness ==
  /\ DataSent /\ ~op.fresh /\ g_sensor_data_valid /\ updatedAt >= 0
  /\ RealElapsed >= Ticks(STALE_THRESHOLD_MS)

\* C19: from power-up until the first poll cycle that succeeds the validity
\* gate is never fresh; every data message handed over in that period carries
\* synthesized values and is tagged simulated in source and data_type, never
\* the built-in defaults as real data; and every ping handed over in that
\* period reports sensor_status "inactive".
Synthesized(p) ==
  \E d \in DrawVectors :
    /\ p.temperature = SimulatedTemperature(d.temperature)
    /\ p.humidity = SimulatedHumidity(d.humidity)
    /\ p.co2 = 420 + d.co2 /\ p.voc = 15 + d.voc
    /\ p.light_level = 300 + d.light_level
    /\ p.motion = (d.motion < 10)
C19_NoRealDataBeforeFirstSuccess ==
  updatedAt = -1 =>
    /\ ~isSensorDataValid
    /\ DataSent =>
         /\ Synthesized(Parameters)
         /\ Parameters.source = "esp8266_simulated"
         /\ Parameters.data_type = "simulated"
    /\ (op.name = "sendPing" /\ sent # << >>) => sent[1].sensor_status = "inactive"
\* A message sent 3 s after power-up, g_last_sensor_update = 0 being recent.
C19_Witness ==
  /\ DataSent /\ updatedAt = -1 /\ clock = Ticks(SETTLE_DELAY_MS)
  /\ Parameters.data_type = "simulated" /\ Parameters.co2 = 370

====
